---- MODULE Spec2Model ----
(***************************************************************************)
(* Role-scoped authorization and data visibility of the Vehicle            *)
(* Conspicuity certificate backend.  The repository holds two servers     *)
(* with the same routes: src/backend/server.py (MongoDB, prefix mongo_)   *)
(* and src/server.py (PostgreSQL through SQLAlchemy, prefix sql_).  The   *)
(* variable impl says which of the two is running.                        *)
(*                                                                         *)
(* The store is the three collections users, relationships, certificates. *)
(* Every route handler is one action; resp is the HTTP response of the    *)
(* last request.  uuid4 values are modelled as fresh numbers, passwords   *)
(* and the JWT signature are left out (a credential is the subject it     *)
(* decodes to), datetime.now() is a reading of clock.  tasks holds the    *)
(* handler coroutines that are suspended at an await; it stays empty in   *)
(* the specifications that run every handler to its end in one step.      *)
(***************************************************************************)
EXTENDS Integers, FiniteSets, Sequences, TLC

VARIABLES impl, users, relationships, certificates, clock, resp, tasks

vars == <<impl, users, relationships, certificates, clock, resp, tasks>>

(***************************************************************************)
(* Bounds of the model.                                                    *)
(***************************************************************************)
MaxUsers == 4
MaxClock == 2

(***************************************************************************)
(* Constants of the program.                                               *)
(***************************************************************************)
ADMIN == "admin"
DISTRIBUTOR == "distributor"
RETAILER == "retailer"

\* Python's None for optional strings, and for the optional id created_by.
None == "None"
NoId == 0

ImageTypes == {"front", "back", "side1", "side2"}

(***************************************************************************)
(* Inputs.  role, status and image_type are plain str in the request       *)
(* models, so values outside the documented sets are possible inputs.      *)
(***************************************************************************)
RoleArgs == {ADMIN, DISTRIBUTOR, RETAILER, "manager"}
StatusArgs == {"draft"}
ImageTypeArgs == {"front", "top"}
Payloads == {"img1"}

\* Usernames are opaque: a registration of a new name takes the next unused
\* name of the list, a registration of a used name repeats "admin" (stored
\* from startup on).
NameList == <<"admin", "u1", "u2", "u3", "u4", "u5">>

UsedNames == {u.username : u \in users}

FreshNames ==
    LET free == {i \in 1..Len(NameList) : NameList[i] \notin UsedNames}
    IN  IF free = {} THEN {}
        ELSE {NameList[CHOOSE i \in free : \A j \in free : i <= j]}

UsernameArgs == {"admin"} \cup FreshNames

\* Credentials: no Authorization header, a token jwt.decode rejects, a token
\* without "sub", and a well-signed token for a subject (a stored username or
\* one that is not stored).
Credentials ==
    {[kind |-> "missing", sub |-> None],
     [kind |-> "invalid", sub |-> None],
     [kind |-> "nosub", sub |-> None]}
    \cup {[kind |-> "jwt", sub |-> n] : n \in UsedNames \cup FreshNames}

\* CertificateCreate bodies.
CertificateCreateArgs ==
    {[dealer_name |-> "dn1", dealer_license |-> "dl1", vehicle_details |-> "vd1",
      owner_details |-> "od1", fitment_details |-> "fd1", status |-> s] :
        s \in StatusArgs}

\* CertificateUpdate bodies; None is a field that is absent or null.
NoUpdate ==
    [dealer_name |-> None, dealer_license |-> None, vehicle_details |-> None,
     owner_details |-> None, fitment_details |-> None, status |-> None]

CertificateUpdateArgs ==
    {[NoUpdate EXCEPT !.dealer_name = "dn2", !.status = "submitted"],
     [NoUpdate EXCEPT !.vehicle_details = "vd2"]}

UpdatableFields ==
    {"dealer_name", "dealer_license", "vehicle_details", "owner_details",
     "fitment_details", "status"}

(***************************************************************************)
(* Records of the store.                                                   *)
(***************************************************************************)
User(id, username, role, created_by) ==
    [id |-> id, username |-> username, role |-> role, created_by |-> created_by]

NoImages == [t \in {} |-> None]

Certificate(id, retailer_id, data, now) ==
    [id |-> id, certificate_no |-> id, retailer_id |-> retailer_id,
     dealer_name |-> data.dealer_name, dealer_license |-> data.dealer_license,
     vehicle_details |-> data.vehicle_details, owner_details |-> data.owner_details,
     fitment_details |-> data.fitment_details, fitment_date |-> now,
     images |-> NoImages, status |-> data.status,
     created_at |-> now, updated_at |-> now]

\* uuid4(): a value no stored record has.
NewUserId == Cardinality(users) + 1
NewRelationshipId == Cardinality(relationships) + 1
NewCertificateId == Cardinality(certificates) + 1

\* datetime.now(timezone.utc)
Now == clock + 1

b64encode(contents) == <<"b64", contents>>

(***************************************************************************)
(* Responses.                                                              *)
(***************************************************************************)
Response(status, detail, body) ==
    [status |-> status, detail |-> detail, body |-> body]

Ok(body) == Response(200, "", body)

HTTPException(status, detail) == Response(status, detail, None)

\* What a handler does: its response and the store it leaves.
Outcome(r, us, rs, cs) ==
    [response |-> r, users |-> us, relationships |-> rs, certificates |-> cs]

Reply(r) == Outcome(r, users, relationships, certificates)

(***************************************************************************)
(* Authentication and role check.                                          *)
(***************************************************************************)
\* The users a credential resolves to; none means 401.
get_current_user(cred) ==
    IF cred.kind # "jwt" THEN {}
    ELSE {u \in users : u.username = cred.sub}

require_roles(allowed_roles, current_user) ==
    current_user.role \in allowed_roles

Insufficient == HTTPException(403, "Insufficient permissions")

(***************************************************************************)
(* src/backend/server.py: the MongoDB server.                              *)
(***************************************************************************)
\* Mutant: the branch that refuses the admin role is missing.
mongo_register_user_admin_branch_missing(current_user, user_data) ==
    LET user_obj ==
            User(NewUserId, user_data.username, user_data.role, current_user.id)
        relationship ==
            [id |-> NewRelationshipId, distributor_id |-> current_user.id,
             retailer_id |-> user_obj.id]
    IN  IF \E u \in users : u.username = user_data.username
        THEN Reply(HTTPException(400, "Username already registered"))
        ELSE IF user_data.role = DISTRIBUTOR /\ current_user.role # ADMIN
        THEN Reply(HTTPException(403, "Only admins can create distributors"))
        ELSE IF user_data.role = RETAILER
                /\ current_user.role \notin {ADMIN, DISTRIBUTOR}
        THEN Reply(HTTPException(403, "Only admins or distributors can create retailers"))
        ELSE Outcome(Ok(user_obj),
                     users \cup {user_obj},
                     IF user_data.role = RETAILER /\ current_user.role = DISTRIBUTOR
                     THEN relationships \cup {relationship}
                     ELSE relationships,
                     certificates)

\* Mutant: the role checks run before the username lookup.
mongo_register_user_role_check_first(current_user, user_data) ==
    LET user_obj ==
            User(NewUserId, user_data.username, user_data.role, current_user.id)
        relationship ==
            [id |-> NewRelationshipId, distributor_id |-> current_user.id,
             retailer_id |-> user_obj.id]
    IN  IF user_data.role = ADMIN
        THEN Reply(HTTPException(403, "Cannot create admin users through registration"))
        ELSE IF user_data.role = DISTRIBUTOR /\ current_user.role # ADMIN
        THEN Reply(HTTPException(403, "Only admins can create distributors"))
        ELSE IF user_data.role = RETAILER
                /\ current_user.role \notin {ADMIN, DISTRIBUTOR}
        THEN Reply(HTTPException(403, "Only admins or distributors can create retailers"))
        ELSE IF \E u \in users : u.username = user_data.username
        THEN Reply(HTTPException(400, "Username already registered"))
        ELSE Outcome(Ok(user_obj),
                     users \cup {user_obj},
                     IF user_data.role = RETAILER /\ current_user.role = DISTRIBUTOR
                     THEN relationships \cup {relationship}
                     ELSE relationships,
                     certificates)

\* register_user with the edge stored for whatever role a distributor registers.
mongo_register_user_edge_for_any_role(current_user, user_data) ==
    LET user_obj ==
            User(NewUserId, user_data.username, user_data.role, current_user.id)
        relationship ==
            [id |-> NewRelationshipId, distributor_id |-> current_user.id,
             retailer_id |-> user_obj.id]
    IN  IF \E u \in users : u.username = user_data.username
        THEN Reply(HTTPException(400, "Username already registered"))
        ELSE IF user_data.role = ADMIN
        THEN Reply(HTTPException(403, "Cannot create admin users through registration"))
        ELSE IF user_data.role = DISTRIBUTOR /\ current_user.role # ADMIN
        THEN Reply(HTTPException(403, "Only admins can create distributors"))
        ELSE IF user_data.role = RETAILER
                /\ current_user.role \notin {ADMIN, DISTRIBUTOR}
        THEN Reply(HTTPException(403, "Only admins or distributors can create retailers"))
        ELSE Outcome(Ok(user_obj),
                     users \cup {user_obj},
                     IF current_user.role = DISTRIBUTOR
                     THEN relationships \cup {relationship}
                     ELSE relationships,
                     certificates)

mongo_register_user(current_user, user_data) ==
    LET user_obj ==
            User(NewUserId, user_data.username, user_data.role, current_user.id)
        relationship ==
            [id |-> NewRelationshipId, distributor_id |-> current_user.id,
             retailer_id |-> user_obj.id]
    IN  IF \E u \in users : u.username = user_data.username
        THEN Reply(HTTPException(400, "Username already registered"))
        ELSE IF user_data.role = ADMIN
        THEN Reply(HTTPException(403, "Cannot create admin users through registration"))
        ELSE IF user_data.role = DISTRIBUTOR /\ current_user.role # ADMIN
        THEN Reply(HTTPException(403, "Only admins can create distributors"))
        ELSE IF user_data.role = RETAILER
                /\ current_user.role \notin {ADMIN, DISTRIBUTOR}
        THEN Reply(HTTPException(403, "Only admins or distributors can create retailers"))
        ELSE Outcome(Ok(user_obj),
                     users \cup {user_obj},
                     IF user_data.role = RETAILER /\ current_user.role = DISTRIBUTOR
                     THEN relationships \cup {relationship}
                     ELSE relationships,
                     certificates)

mongo_get_current_user_info(current_user) == Reply(Ok(current_user))

mongo_get_users(current_user) ==
    IF ~require_roles({ADMIN, DISTRIBUTOR}, current_user) THEN Reply(Insufficient)
    ELSE IF current_user.role = ADMIN THEN Reply(Ok(users))
    ELSE LET retailer_ids ==
                 {rel.retailer_id :
                     rel \in {r \in relationships : r.distributor_id = current_user.id}}
         IN  Reply(Ok({u \in users : u.id \in retailer_ids}))

mongo_create_certificate(current_user, cert_data) ==
    IF ~require_roles({RETAILER}, current_user) THEN Reply(Insufficient)
    ELSE LET cert_obj == Certificate(NewCertificateId, current_user.id, cert_data, Now)
         IN  Outcome(Ok(cert_obj), users, relationships, certificates \cup {cert_obj})

\* Mutant: the retailer branch does not filter by retailer_id.
mongo_get_certificates_retailer_unfiltered(current_user) ==
    IF current_user.role = ADMIN THEN Reply(Ok(certificates))
    ELSE IF current_user.role = DISTRIBUTOR
    THEN LET retailer_ids ==
                 {rel.retailer_id :
                     rel \in {r \in relationships : r.distributor_id = current_user.id}}
         IN  Reply(Ok({c \in certificates : c.retailer_id \in retailer_ids}))
    ELSE Reply(Ok(certificates))

mongo_get_certificates(current_user) ==
    IF current_user.role = ADMIN THEN Reply(Ok(certificates))
    ELSE IF current_user.role = DISTRIBUTOR
    THEN LET retailer_ids ==
                 {rel.retailer_id :
                     rel \in {r \in relationships : r.distributor_id = current_user.id}}
         IN  Reply(Ok({c \in certificates : c.retailer_id \in retailer_ids}))
    ELSE Reply(Ok({c \in certificates : c.retailer_id = current_user.id}))

\* Mutant: the relationship lookup for a distributor is missing.
mongo_get_certificate_any_distributor(current_user, certificate_id) ==
    LET found == {c \in certificates : c.id = certificate_id}
    IN  IF found = {} THEN Reply(HTTPException(404, "Certificate not found"))
        ELSE LET cert_obj == CHOOSE c \in found : TRUE
             IN  IF current_user.role = RETAILER
                    /\ cert_obj.retailer_id # current_user.id
                 THEN Reply(HTTPException(403, "Access forbidden"))
                 ELSE Reply(Ok(cert_obj))

mongo_get_certificate(current_user, certificate_id) ==
    LET found == {c \in certificates : c.id = certificate_id}
    IN  IF found = {} THEN Reply(HTTPException(404, "Certificate not found"))
        ELSE LET cert_obj == CHOOSE c \in found : TRUE
             IN  IF current_user.role = RETAILER
                    /\ cert_obj.retailer_id # current_user.id
                 THEN Reply(HTTPException(403, "Access forbidden"))
                 ELSE IF current_user.role = DISTRIBUTOR
                         /\ ~\E r \in relationships :
                                 /\ r.distributor_id = current_user.id
                                 /\ r.retailer_id = cert_obj.retailer_id
                 THEN Reply(HTTPException(403, "Access forbidden"))
                 ELSE Reply(Ok(cert_obj))

\* {"$set": update_data}: the fields that are not None, and updated_at.
mongo_set(certificate, update_data, now) ==
    [f \in DOMAIN certificate |->
        IF f = "updated_at" THEN now
        ELSE IF f \in UpdatableFields /\ update_data[f] # None THEN update_data[f]
        ELSE certificate[f]]

\* Mutant: the comparison of retailer_id with the caller's id is missing.
mongo_update_certificate_no_owner_check(current_user, certificate_id, cert_data) ==
    LET found == {c \in certificates : c.id = certificate_id}
    IN  IF ~require_roles({RETAILER}, current_user) THEN Reply(Insufficient)
        ELSE IF found = {} THEN Reply(HTTPException(404, "Certificate not found"))
        ELSE LET certificate == CHOOSE c \in found : TRUE
                 updated_cert == mongo_set(certificate, cert_data, Now)
             IN  Outcome(Ok(updated_cert), users, relationships,
                         (certificates \ {certificate}) \cup {updated_cert})

\* Mutant: the $set is issued before retailer_id is compared with the caller.
mongo_update_certificate_write_first(current_user, certificate_id, cert_data) ==
    LET found == {c \in certificates : c.id = certificate_id}
    IN  IF ~require_roles({RETAILER}, current_user) THEN Reply(Insufficient)
        ELSE IF found = {} THEN Reply(HTTPException(404, "Certificate not found"))
        ELSE LET certificate == CHOOSE c \in found : TRUE
                 updated_cert == mongo_set(certificate, cert_data, Now)
             IN  IF certificate.retailer_id # current_user.id
                 THEN Outcome(HTTPException(403, "Access forbidden"), users,
                              relationships,
                              (certificates \ {certificate}) \cup {updated_cert})
                 ELSE Outcome(Ok(updated_cert), users, relationships,
                              (certificates \ {certificate}) \cup {updated_cert})

mongo_update_certificate(current_user, certificate_id, cert_data) ==
    LET found == {c \in certificates : c.id = certificate_id}
    IN  IF ~require_roles({RETAILER}, current_user) THEN Reply(Insufficient)
        ELSE IF found = {} THEN Reply(HTTPException(404, "Certificate not found"))
        ELSE LET certificate == CHOOSE c \in found : TRUE
                 updated_cert == mongo_set(certificate, cert_data, Now)
             IN  IF certificate.retailer_id # current_user.id
                 THEN Reply(HTTPException(403, "Access forbidden"))
                 ELSE Outcome(Ok(updated_cert), users, relationships,
                              (certificates \ {certificate}) \cup {updated_cert})

\* {"$set": {"images.<image_type>": encoded_image, "updated_at": now}}
mongo_set_image(certificate, image_type, encoded_image, now) ==
    [certificate EXCEPT
        !.images = [t \in DOMAIN certificate.images \cup {image_type} |->
                       IF t = image_type THEN encoded_image
                       ELSE certificate.images[t]],
        !.updated_at = now]

\* Mutant: the membership test of image_type in the four tags is missing.
mongo_upload_certificate_image_any_tag(current_user, certificate_id, image_type, file) ==
    LET found == {c \in certificates : c.id = certificate_id}
    IN  IF ~require_roles({RETAILER}, current_user) THEN Reply(Insufficient)
        ELSE IF found = {} THEN Reply(HTTPException(404, "Certificate not found"))
        ELSE LET certificate == CHOOSE c \in found : TRUE
                 stored == mongo_set_image(certificate, image_type, b64encode(file), Now)
             IN  IF certificate.retailer_id # current_user.id
                 THEN Reply(HTTPException(403, "Access forbidden"))
                 ELSE Outcome(Ok([message |-> "Image uploaded successfully",
                                  image_type |-> image_type]),
                              users, relationships,
                              (certificates \ {certificate}) \cup {stored})

mongo_upload_certificate_image(current_user, certificate_id, image_type, file) ==
    LET found == {c \in certificates : c.id = certificate_id}
    IN  IF ~require_roles({RETAILER}, current_user) THEN Reply(Insufficient)
        ELSE IF found = {} THEN Reply(HTTPException(404, "Certificate not found"))
        ELSE LET certificate == CHOOSE c \in found : TRUE
                 stored == mongo_set_image(certificate, image_type, b64encode(file), Now)
             IN  IF certificate.retailer_id # current_user.id
                 THEN Reply(HTTPException(403, "Access forbidden"))
                 ELSE IF image_type \notin ImageTypes
                 THEN Reply(HTTPException(400, "Invalid image type"))
                 ELSE Outcome(Ok([message |-> "Image uploaded successfully",
                                  image_type |-> image_type]),
                              users, relationships,
                              (certificates \ {certificate}) \cup {stored})

\* Mutant: the distributor's draft count is not reduced by the submitted ones.
mongo_get_dashboard_stats_draft_is_total(current_user) ==
    IF current_user.role = ADMIN
    THEN LET total_certificates == Cardinality(certificates)
             submitted_certificates ==
                 Cardinality({c \in certificates : c.status = "submitted"})
         IN  Reply(Ok([total_users |-> Cardinality(users),
                       total_distributors |->
                           Cardinality({u \in users : u.role = DISTRIBUTOR}),
                       total_retailers |->
                           Cardinality({u \in users : u.role = RETAILER}),
                       total_certificates |-> total_certificates,
                       submitted_certificates |-> submitted_certificates,
                       draft_certificates |->
                           total_certificates - submitted_certificates]))
    ELSE IF current_user.role = DISTRIBUTOR
    THEN LET rels == {r \in relationships : r.distributor_id = current_user.id}
             retailer_ids == {rel.retailer_id : rel \in rels}
             total_certificates ==
                 Cardinality({c \in certificates : c.retailer_id \in retailer_ids})
             submitted_certificates ==
                 Cardinality({c \in certificates : /\ c.retailer_id \in retailer_ids
                                                   /\ c.status = "submitted"})
         IN  Reply(Ok([total_retailers |-> Cardinality(rels),
                       total_certificates |-> total_certificates,
                       submitted_certificates |-> submitted_certificates,
                       draft_certificates |-> total_certificates]))
    ELSE LET total_certificates ==
                 Cardinality({c \in certificates : c.retailer_id = current_user.id})
             submitted_certificates ==
                 Cardinality({c \in certificates : /\ c.retailer_id = current_user.id
                                                   /\ c.status = "submitted"})
         IN  Reply(Ok([total_certificates |-> total_certificates,
                       submitted_certificates |-> submitted_certificates,
                       draft_certificates |->
                           total_certificates - submitted_certificates]))

\* len(retailer_ids) counts one entry for every relationship document.
mongo_get_dashboard_stats(current_user) ==
    IF current_user.role = ADMIN
    THEN LET total_certificates == Cardinality(certificates)
             submitted_certificates ==
                 Cardinality({c \in certificates : c.status = "submitted"})
         IN  Reply(Ok([total_users |-> Cardinality(users),
                       total_distributors |->
                           Cardinality({u \in users : u.role = DISTRIBUTOR}),
                       total_retailers |->
                           Cardinality({u \in users : u.role = RETAILER}),
                       total_certificates |-> total_certificates,
                       submitted_certificates |-> submitted_certificates,
                       draft_certificates |->
                           total_certificates - submitted_certificates]))
    ELSE IF current_user.role = DISTRIBUTOR
    THEN LET rels == {r \in relationships : r.distributor_id = current_user.id}
             retailer_ids == {rel.retailer_id : rel \in rels}
             total_certificates ==
                 Cardinality({c \in certificates : c.retailer_id \in retailer_ids})
             submitted_certificates ==
                 Cardinality({c \in certificates : /\ c.retailer_id \in retailer_ids
                                                   /\ c.status = "submitted"})
         IN  Reply(Ok([total_retailers |-> Cardinality(rels),
                       total_certificates |-> total_certificates,
                       submitted_certificates |-> submitted_certificates,
                       draft_certificates |->
                           total_certificates - submitted_certificates]))
    ELSE LET total_certificates ==
                 Cardinality({c \in certificates : c.retailer_id = current_user.id})
             submitted_certificates ==
                 Cardinality({c \in certificates : /\ c.retailer_id = current_user.id
                                                   /\ c.status = "submitted"})
         IN  Reply(Ok([total_certificates |-> total_certificates,
                       submitted_certificates |-> submitted_certificates,
                       draft_certificates |->
                           total_certificates - submitted_certificates]))

(***************************************************************************)
(* src/server.py: the PostgreSQL server.                                   *)
(***************************************************************************)
\* An exception no handler catches: the framework answers 500.
InternalServerError == Response(500, "Internal Server Error", None)

\* UserModel.username is unique=True: the commit of a row whose username is
\* stored raises IntegrityError.
sql_username_is_unique(username) == ~\E u \in users : u.username = username

\* Mutant: retailers too may register retailers.
sql_register_user_by_retailer(current_user, user_data) ==
    LET user_obj ==
            User(NewUserId, user_data.username, user_data.role, current_user.id)
        rel ==
            [id |-> NewRelationshipId, distributor_id |-> current_user.id,
             retailer_id |-> user_obj.id]
    IN  IF \E u \in users : u.username = user_data.username
        THEN Reply(HTTPException(400, "Username already registered"))
        ELSE IF user_data.role = ADMIN
        THEN Reply(HTTPException(403, "Cannot create admin users through registration"))
        ELSE IF user_data.role = DISTRIBUTOR /\ current_user.role # ADMIN
        THEN Reply(HTTPException(403, "Only admins can create distributors"))
        ELSE IF user_data.role = RETAILER
                /\ current_user.role \notin {ADMIN, DISTRIBUTOR, RETAILER}
        THEN Reply(HTTPException(403, "Only admins or distributors can create retailers"))
        ELSE IF ~sql_username_is_unique(user_obj.username)
        THEN Reply(HTTPException(400, "Username already exists"))
        ELSE Outcome(Ok(user_obj),
                     users \cup {user_obj},
                     IF user_data.role = RETAILER /\ current_user.role = DISTRIBUTOR
                     THEN relationships \cup {rel}
                     ELSE relationships,
                     certificates)

\* Mutant: the edge is stored for every new retailer, whoever registers it.
sql_register_user_edge_for_any_caller(current_user, user_data) ==
    LET user_obj ==
            User(NewUserId, user_data.username, user_data.role, current_user.id)
        rel ==
            [id |-> NewRelationshipId, distributor_id |-> current_user.id,
             retailer_id |-> user_obj.id]
    IN  IF \E u \in users : u.username = user_data.username
        THEN Reply(HTTPException(400, "Username already registered"))
        ELSE IF user_data.role = ADMIN
        THEN Reply(HTTPException(403, "Cannot create admin users through registration"))
        ELSE IF user_data.role = DISTRIBUTOR /\ current_user.role # ADMIN
        THEN Reply(HTTPException(403, "Only admins can create distributors"))
        ELSE IF user_data.role = RETAILER
                /\ current_user.role \notin {ADMIN, DISTRIBUTOR}
        THEN Reply(HTTPException(403, "Only admins or distributors can create retailers"))
        ELSE IF ~sql_username_is_unique(user_obj.username)
        THEN Reply(HTTPException(400, "Username already exists"))
        ELSE Outcome(Ok(user_obj),
                     users \cup {user_obj},
                     IF user_data.role = RETAILER
                     THEN relationships \cup {rel}
                     ELSE relationships,
                     certificates)

sql_register_user(current_user, user_data) ==
    LET user_obj ==
            User(NewUserId, user_data.username, user_data.role, current_user.id)
        rel ==
            [id |-> NewRelationshipId, distributor_id |-> current_user.id,
             retailer_id |-> user_obj.id]
    IN  IF \E u \in users : u.username = user_data.username
        THEN Reply(HTTPException(400, "Username already registered"))
        ELSE IF user_data.role = ADMIN
        THEN Reply(HTTPException(403, "Cannot create admin users through registration"))
        ELSE IF user_data.role = DISTRIBUTOR /\ current_user.role # ADMIN
        THEN Reply(HTTPException(403, "Only admins can create distributors"))
        ELSE IF user_data.role = RETAILER
                /\ current_user.role \notin {ADMIN, DISTRIBUTOR}
        THEN Reply(HTTPException(403, "Only admins or distributors can create retailers"))
        ELSE IF ~sql_username_is_unique(user_obj.username)
        THEN Reply(HTTPException(400, "Username already exists"))
        ELSE Outcome(Ok(user_obj),
                     users \cup {user_obj},
                     IF user_data.role = RETAILER /\ current_user.role = DISTRIBUTOR
                     THEN relationships \cup {rel}
                     ELSE relationships,
                     certificates)

sql_get_current_user_info(current_user) == Reply(Ok(current_user))

\* Mutant: a distributor is shown every retailer, linked or not.
sql_get_users_every_retailer(current_user) ==
    IF ~require_roles({ADMIN, DISTRIBUTOR}, current_user) THEN Reply(Insufficient)
    ELSE IF current_user.role = ADMIN THEN Reply(Ok(users))
    ELSE Reply(Ok({u \in users : u.role = RETAILER}))

sql_get_users(current_user) ==
    IF ~require_roles({ADMIN, DISTRIBUTOR}, current_user) THEN Reply(Insufficient)
    ELSE IF current_user.role = ADMIN THEN Reply(Ok(users))
    ELSE LET retailer_ids ==
                 {r.retailer_id :
                     r \in {x \in relationships : x.distributor_id = current_user.id}}
         IN  IF retailer_ids # {}
             THEN Reply(Ok({u \in users : u.id \in retailer_ids}))
             ELSE Reply(Ok({}))

\* Mutant: the route lacks its require_roles dependency.
sql_create_certificate_any_role(current_user, cert_data) ==
    LET cert_obj == Certificate(NewCertificateId, current_user.id, cert_data, Now)
    IN  Outcome(Ok(cert_obj), users, relationships, certificates \cup {cert_obj})

sql_create_certificate(current_user, cert_data) ==
    IF ~require_roles({RETAILER}, current_user) THEN Reply(Insufficient)
    ELSE LET cert_obj == Certificate(NewCertificateId, current_user.id, cert_data, Now)
         IN  Outcome(Ok(cert_obj), users, relationships, certificates \cup {cert_obj})

\* Mutant: with no linked retailer the query runs without a filter.
sql_get_certificates_empty_unfiltered(current_user) ==
    IF current_user.role = ADMIN THEN Reply(Ok(certificates))
    ELSE IF current_user.role = DISTRIBUTOR
    THEN LET retailer_ids ==
                 {r.retailer_id :
                     r \in {x \in relationships : x.distributor_id = current_user.id}}
         IN  IF retailer_ids # {}
             THEN Reply(Ok({c \in certificates : c.retailer_id \in retailer_ids}))
             ELSE Reply(Ok(certificates))
    ELSE Reply(Ok({c \in certificates : c.retailer_id = current_user.id}))

sql_get_certificates(current_user) ==
    IF current_user.role = ADMIN THEN Reply(Ok(certificates))
    ELSE IF current_user.role = DISTRIBUTOR
    THEN LET retailer_ids ==
                 {r.retailer_id :
                     r \in {x \in relationships : x.distributor_id = current_user.id}}
         IN  IF retailer_ids # {}
             THEN Reply(Ok({c \in certificates : c.retailer_id \in retailer_ids}))
             ELSE Reply(Ok({}))
    ELSE Reply(Ok({c \in certificates : c.retailer_id = current_user.id}))

\* Mutant: a retailer's ownership is checked before the lookup result.
sql_get_certificate_permission_first(current_user, certificate_id) ==
    LET found == {c \in certificates : c.id = certificate_id}
    IN  IF current_user.role = RETAILER
           /\ ~\E c \in found : c.retailer_id = current_user.id
        THEN Reply(HTTPException(403, "Access forbidden"))
        ELSE IF found = {} THEN Reply(HTTPException(404, "Certificate not found"))
        ELSE LET cert_obj == CHOOSE c \in found : TRUE
             IN  IF current_user.role = DISTRIBUTOR
                    /\ ~\E x \in relationships :
                            /\ x.distributor_id = current_user.id
                            /\ x.retailer_id = cert_obj.retailer_id
                 THEN Reply(HTTPException(403, "Access forbidden"))
                 ELSE Reply(Ok(cert_obj))

sql_get_certificate(current_user, certificate_id) ==
    LET found == {c \in certificates : c.id = certificate_id}
    IN  IF found = {} THEN Reply(HTTPException(404, "Certificate not found"))
        ELSE LET cert_obj == CHOOSE c \in found : TRUE
             IN  IF current_user.role = RETAILER
                    /\ cert_obj.retailer_id # current_user.id
                 THEN Reply(HTTPException(403, "Access forbidden"))
                 ELSE IF current_user.role = DISTRIBUTOR
                         /\ ~\E x \in relationships :
                                 /\ x.distributor_id = current_user.id
                                 /\ x.retailer_id = cert_obj.retailer_id
                 THEN Reply(HTTPException(403, "Access forbidden"))
                 ELSE Reply(Ok(cert_obj))

\* cert_data.dict() has turned the nested models into dicts, so the
\* .model_dump() calls on them raise AttributeError.
sql_update_raises(data) ==
    \/ data.vehicle_details # None
    \/ data.owner_details # None
    \/ data.fitment_details # None

\* update(CertificateModel).values(**update_fields)
sql_values(r, update_fields, now) ==
    [f \in DOMAIN r |->
        IF f = "updated_at" THEN now
        ELSE IF f \in UpdatableFields /\ update_fields[f] # None THEN update_fields[f]
        ELSE r[f]]

sql_update_certificate(current_user, certificate_id, cert_data) ==
    LET found == {c \in certificates : c.id = certificate_id}
    IN  IF ~require_roles({RETAILER}, current_user) THEN Reply(Insufficient)
        ELSE IF found = {} THEN Reply(HTTPException(404, "Certificate not found"))
        ELSE LET r == CHOOSE c \in found : TRUE
                 updated == sql_values(r, cert_data, Now)
             IN  IF r.retailer_id # current_user.id
                 THEN Reply(HTTPException(403, "Access forbidden"))
                 ELSE IF sql_update_raises(cert_data)
                 THEN Reply(InternalServerError)
                 ELSE Outcome(Ok(updated), users, relationships,
                              (certificates \ {r}) \cup {updated})

\* Mutant: new_images starts empty instead of from the stored images.
sql_new_images_from_empty(images, image_type, encoded_image) ==
    [t \in {image_type} |-> encoded_image]

\* new_images = dict(r.images or {}); new_images[image_type] = encoded_image
sql_new_images(images, image_type, encoded_image) ==
    [t \in DOMAIN images \cup {image_type} |->
        IF t = image_type THEN encoded_image ELSE images[t]]

\* Mutant: the tag is validated before the certificate is looked up.
sql_upload_certificate_image_tag_check_first(current_user, certificate_id, image_type, file) ==
    LET found == {c \in certificates : c.id = certificate_id}
    IN  IF ~require_roles({RETAILER}, current_user) THEN Reply(Insufficient)
        ELSE IF image_type \notin ImageTypes
        THEN Reply(HTTPException(400, "Invalid image type"))
        ELSE IF found = {} THEN Reply(HTTPException(404, "Certificate not found"))
        ELSE LET r == CHOOSE c \in found : TRUE
                 new_images == sql_new_images(r.images, image_type, b64encode(file))
                 stored == [r EXCEPT !.images = new_images, !.updated_at = Now]
             IN  IF r.retailer_id # current_user.id
                 THEN Reply(HTTPException(403, "Access forbidden"))
                 ELSE Outcome(Ok([message |-> "Image uploaded successfully",
                                  image_type |-> image_type]),
                              users, relationships,
                              (certificates \ {r}) \cup {stored})

sql_upload_certificate_image(current_user, certificate_id, image_type, file) ==
    LET found == {c \in certificates : c.id = certificate_id}
    IN  IF ~require_roles({RETAILER}, current_user) THEN Reply(Insufficient)
        ELSE IF found = {} THEN Reply(HTTPException(404, "Certificate not found"))
        ELSE LET r == CHOOSE c \in found : TRUE
                 new_images == sql_new_images(r.images, image_type, b64encode(file))
                 stored == [r EXCEPT !.images = new_images, !.updated_at = Now]
             IN  IF r.retailer_id # current_user.id
                 THEN Reply(HTTPException(403, "Access forbidden"))
                 ELSE IF image_type \notin ImageTypes
                 THEN Reply(HTTPException(400, "Invalid image type"))
                 ELSE Outcome(Ok([message |-> "Image uploaded successfully",
                                  image_type |-> image_type]),
                              users, relationships,
                              (certificates \ {r}) \cup {stored})

\* The admin branch passes func.count(UserModel.id).filter(...) to
\* session.execute: filter() returns a FunctionFilter, a column expression
\* and no executable statement, so execute raises ArgumentError at
\* total_distributors, before anything is returned.
sql_get_dashboard_stats(current_user) ==
    IF current_user.role = ADMIN THEN Reply(InternalServerError)
    ELSE IF current_user.role = DISTRIBUTOR
    THEN LET rels == {x \in relationships : x.distributor_id = current_user.id}
             retailer_ids == {r.retailer_id : r \in rels}
             rows == IF retailer_ids # {}
                     THEN {c \in certificates : c.retailer_id \in retailer_ids}
                     ELSE {}
             total_certificates == Cardinality(rows)
             submitted_certificates ==
                 Cardinality({r \in rows : r.status = "submitted"})
         IN  Reply(Ok([total_retailers |-> Cardinality(rels),
                       total_certificates |-> total_certificates,
                       submitted_certificates |-> submitted_certificates,
                       draft_certificates |->
                           total_certificates - submitted_certificates]))
    ELSE LET rows == {c \in certificates : c.retailer_id = current_user.id}
             total_certificates == Cardinality(rows)
             submitted_certificates ==
                 Cardinality({r \in rows : r.status = "submitted"})
         IN  Reply(Ok([total_certificates |-> total_certificates,
                       submitted_certificates |-> submitted_certificates,
                       draft_certificates |->
                           total_certificates - submitted_certificates]))

(***************************************************************************)
(* The routes of the running server.                                       *)
(***************************************************************************)
register_user(current_user, user_data) ==
    IF impl = "mongo" THEN mongo_register_user(current_user, user_data)
    ELSE sql_register_user(current_user, user_data)

get_current_user_info(current_user) ==
    IF impl = "mongo" THEN mongo_get_current_user_info(current_user)
    ELSE sql_get_current_user_info(current_user)

get_users(current_user) ==
    IF impl = "mongo" THEN mongo_get_users(current_user)
    ELSE sql_get_users(current_user)

create_certificate(current_user, cert_data) ==
    IF impl = "mongo" THEN mongo_create_certificate(current_user, cert_data)
    ELSE sql_create_certificate(current_user, cert_data)

get_certificates(current_user) ==
    IF impl = "mongo" THEN mongo_get_certificates(current_user)
    ELSE sql_get_certificates(current_user)

get_certificate(current_user, certificate_id) ==
    IF impl = "mongo" THEN mongo_get_certificate(current_user, certificate_id)
    ELSE sql_get_certificate(current_user, certificate_id)

update_certificate(current_user, certificate_id, cert_data) ==
    IF impl = "mongo"
    THEN mongo_update_certificate(current_user, certificate_id, cert_data)
    ELSE sql_update_certificate(current_user, certificate_id, cert_data)

upload_certificate_image(current_user, certificate_id, image_type, file) ==
    IF impl = "mongo"
    THEN mongo_upload_certificate_image(current_user, certificate_id, image_type, file)
    ELSE sql_upload_certificate_image(current_user, certificate_id, image_type, file)

get_dashboard_stats(current_user) ==
    IF impl = "mongo" THEN mongo_get_dashboard_stats(current_user)
    ELSE sql_get_dashboard_stats(current_user)

(***************************************************************************)
(* The state machine.  The client sends one request at a time: a handler   *)
(* runs when no response is in flight, and leaves its response in resp     *)
(* until the client has taken it.                                          *)
(***************************************************************************)
Routes ==
    {"register_user", "get_current_user_info", "get_users", "create_certificate",
     "get_certificates", "get_certificate", "update_certificate",
     "upload_certificate_image", "get_dashboard_stats"}

\* No response in flight.
Idle ==
    [op |-> "idle", caller |-> NoId, arg |-> None, status |-> 0, detail |-> "",
     body |-> None]

\* The default admin of a running deployment (create_default_admin stores
\* it at the first startup of the MongoDB server).
DefaultAdmin == User(1, "admin", ADMIN, NoId)

Init ==
    /\ impl \in {"mongo", "sql"}
    /\ users = {DefaultAdmin}
    /\ relationships = {}
    /\ certificates = {}
    /\ clock = 0
    /\ resp = Idle
    /\ tasks = {}

\* Certificate ids a request may name: the stored ones and one that is not.
CertificateIdArgs == {c.id : c \in certificates} \cup {NewCertificateId}

\* The handler of route op, called by current_user with arg, ends as out;
\* no reading of the clock goes beyond limit.
HandleWithin(limit, op, current_user, arg, out) ==
    /\ resp = Idle
    /\ Cardinality(out.users) <= MaxUsers
    /\ out.certificates # certificates => clock < limit
    /\ users' = out.users
    /\ relationships' = out.relationships
    /\ certificates' = out.certificates
    /\ clock' = IF out.certificates # certificates THEN Now ELSE clock
    /\ resp' = [op |-> op, caller |-> current_user.id, arg |-> arg,
                status |-> out.response.status, detail |-> out.response.detail,
                body |-> out.response.body]
    /\ UNCHANGED <<impl, tasks>>

Handle(op, current_user, arg, out) ==
    HandleWithin(MaxClock, op, current_user, arg, out)

\* Mutant: on the routes that depend on require_roles the role check answers
\* before the credential is resolved.
Unauthenticated_role_check_first(op, cred) ==
    /\ resp = Idle
    /\ get_current_user(cred) = {}
    /\ resp' = IF op \in {"create_certificate", "update_certificate",
                          "upload_certificate_image"}
               THEN [op |-> op, caller |-> NoId, arg |-> cred, status |-> 403,
                     detail |-> "Insufficient permissions", body |-> None]
               ELSE [op |-> op, caller |-> NoId, arg |-> cred, status |-> 401,
                     detail |-> "Could not validate credentials", body |-> None]
    /\ UNCHANGED <<impl, users, relationships, certificates, clock, tasks>>

\* get_current_user raises credentials_exception (or HTTPBearer rejects the
\* request) before the handler runs.
Unauthenticated(op, cred) ==
    /\ resp = Idle
    /\ get_current_user(cred) = {}
    /\ resp' = [op |-> op, caller |-> NoId, arg |-> cred, status |-> 401,
                detail |-> "Could not validate credentials", body |-> None]
    /\ UNCHANGED <<impl, users, relationships, certificates, clock, tasks>>

RegisterUser(cu, user_data) ==
    Handle("register_user", cu, user_data, register_user(cu, user_data))

GetCurrentUserInfo(cu) ==
    Handle("get_current_user_info", cu, None, get_current_user_info(cu))

GetUsers(cu) ==
    Handle("get_users", cu, None, get_users(cu))

CreateCertificate(cu, cert_data) ==
    Handle("create_certificate", cu, cert_data, create_certificate(cu, cert_data))

GetCertificates(cu) ==
    Handle("get_certificates", cu, None, get_certificates(cu))

GetCertificate(cu, certificate_id) ==
    Handle("get_certificate", cu, [certificate_id |-> certificate_id],
           get_certificate(cu, certificate_id))

UpdateCertificate(cu, certificate_id, cert_data) ==
    Handle("update_certificate", cu,
           [certificate_id |-> certificate_id, cert_data |-> cert_data],
           update_certificate(cu, certificate_id, cert_data))

UploadCertificateImage(cu, certificate_id, image_type, file) ==
    Handle("upload_certificate_image", cu,
           [certificate_id |-> certificate_id, image_type |-> image_type,
            file |-> file],
           upload_certificate_image(cu, certificate_id, image_type, file))

\* The client takes the response.
Receive ==
    /\ resp # Idle
    /\ resp' = Idle
    /\ UNCHANGED <<impl, users, relationships, certificates, clock, tasks>>

\* The requests: any route, any credential, any arguments.
Callers == UNION {get_current_user(cred) : cred \in Credentials}

UnauthenticatedRequest ==
    resp = Idle /\ \E op \in Routes, cred \in Credentials : Unauthenticated(op, cred)

RegisterUserRequest ==
    resp = Idle /\ \E cu \in Callers, username \in UsernameArgs, role \in RoleArgs :
        RegisterUser(cu, [username |-> username, role |-> role])

GetCurrentUserInfoRequest ==
    resp = Idle /\ \E cu \in Callers : GetCurrentUserInfo(cu)

GetUsersRequest ==
    resp = Idle /\ \E cu \in Callers : GetUsers(cu)

CreateCertificateRequest ==
    resp = Idle /\ \E cu \in Callers, cert_data \in CertificateCreateArgs :
        CreateCertificate(cu, cert_data)

GetCertificatesRequest ==
    resp = Idle /\ \E cu \in Callers : GetCertificates(cu)

GetCertificateRequest ==
    resp = Idle /\ \E cu \in Callers, id \in CertificateIdArgs : GetCertificate(cu, id)

UpdateCertificateRequest ==
    resp = Idle /\ \E cu \in Callers, id \in CertificateIdArgs,
                      cert_data \in CertificateUpdateArgs :
        UpdateCertificate(cu, id, cert_data)

UploadCertificateImageRequest ==
    resp = Idle /\ \E cu \in Callers, id \in CertificateIdArgs,
                      image_type \in ImageTypeArgs, file \in Payloads :
        UploadCertificateImage(cu, id, image_type, file)

Next ==
    \/ Receive
    \/ UnauthenticatedRequest
    \/ RegisterUserRequest
    \/ GetCurrentUserInfoRequest
    \/ GetUsersRequest
    \/ CreateCertificateRequest
    \/ GetCertificatesRequest
    \/ GetCertificateRequest
    \/ UpdateCertificateRequest
    \/ UploadCertificateImageRequest

Spec == Init /\ [][Next]_vars

(***************************************************************************)
(* The dashboard.  The requests that change what the dashboard counts, and *)
(* the dashboard itself, one request at a time.                            *)
(***************************************************************************)
GetDashboardStats(cu) ==
    Handle("get_dashboard_stats", cu, None, get_dashboard_stats(cu))

GetDashboardStatsRequest ==
    resp = Idle /\ \E cu \in Callers : GetDashboardStats(cu)

NextDashboard ==
    \/ Receive
    \/ RegisterUserRequest
    \/ CreateCertificateRequest
    \/ UpdateCertificateRequest
    \/ GetDashboardStatsRequest

SpecDashboard == Init /\ [][NextDashboard]_vars

(***************************************************************************)
(* Concurrent requests.  A handler is a coroutine: it runs alone from one  *)
(* await to the next, and other handlers run while it waits for the        *)
(* database.  A task is a handler suspended after its checks have passed;  *)
(* it keeps the handler's local variables.  The specification starts in a  *)
(* store that Spec reaches: the admin, a distributor, a retailer the       *)
(* distributor registered, and one certificate of that retailer.  The      *)
(* client takes a response before the next step is scheduled.  A handler   *)
(* that raises before its first write is the one-step handler of Spec and  *)
(* is not repeated here.                                                   *)
(***************************************************************************)
MaxTasks == 2
MaxNow == 3

\* Tags the concurrent uploads carry.
TagArgs == {"front", "back"}

FreeTaskIds == (1..MaxTasks) \ {t.tid : t \in tasks}

Task(op, current_user, arg, pc, now, local) ==
    [tid |-> CHOOSE i \in FreeTaskIds : \A j \in FreeTaskIds : i <= j,
     op |-> op, caller |-> current_user, arg |-> arg, pc |-> pc, now |-> now,
     local |-> local]

ResponseTo(t, r) ==
    [op |-> t.op, caller |-> t.caller.id, arg |-> t.arg,
     status |-> r.status, detail |-> r.detail, body |-> r.body]

InitWithCertificate ==
    LET distributor == User(2, "u1", DISTRIBUTOR, 1)
        retailer == User(3, "u2", RETAILER, 2)
    IN  /\ impl \in {"mongo", "sql"}
        /\ users = {DefaultAdmin, distributor, retailer}
        /\ relationships = {[id |-> 1, distributor_id |-> 2, retailer_id |-> 3]}
        /\ certificates =
               {Certificate(1, 3, CHOOSE d \in CertificateCreateArgs : TRUE, 1)}
        /\ clock = 1
        /\ resp = Idle
        /\ tasks = {}

\* update_certificate up to the await of its write: the lookup, the checks,
\* and update_data with its reading of the clock.
UpdateCertificateBegin(cu, certificate_id, cert_data) ==
    LET arg == [certificate_id |-> certificate_id, cert_data |-> cert_data]
        out == update_certificate(cu, certificate_id, cert_data)
    IN  /\ out.response.status = 200
        /\ FreeTaskIds # {}
        /\ clock < MaxNow
        /\ tasks' = tasks \cup {Task("update_certificate", cu, arg, "update", Now, None)}
        /\ clock' = Now
        /\ UNCHANGED <<impl, users, relationships, certificates, resp>>

\* update_one({"id": ...}, {"$set": update_data}) / update(...).values(...):
\* the database applies the fields to the row as it is stored now.
UpdateCertificateWrite(t) ==
    LET stored == {c \in certificates : c.id = t.arg.certificate_id}
        written == {IF impl = "mongo" THEN mongo_set(c, t.arg.cert_data, t.now)
                    ELSE sql_values(c, t.arg.cert_data, t.now) : c \in stored}
    IN  /\ t.op = "update_certificate"
        /\ t.pc = "update"
        /\ certificates' = (certificates \ stored) \cup written
        /\ tasks' = (tasks \ {t}) \cup {[t EXCEPT !.pc = "refetch"]}
        /\ UNCHANGED <<impl, users, relationships, clock, resp>>

\* The handler reads the certificate again and returns it.
UpdateCertificateReturn(t) ==
    LET stored == {c \in certificates : c.id = t.arg.certificate_id}
    IN  /\ t.op = "update_certificate"
        /\ t.pc = "refetch"
        /\ resp = Idle
        /\ resp' = ResponseTo(t, Ok(CHOOSE c \in stored : TRUE))
        /\ tasks' = tasks \ {t}
        /\ UNCHANGED <<impl, users, relationships, certificates, clock>>

\* upload_certificate_image up to the await of file.read(): the lookup and
\* the checks.  The handler keeps the row it has read.
UploadCertificateImageBegin(cu, certificate_id, image_type, file) ==
    LET arg == [certificate_id |-> certificate_id, image_type |-> image_type,
                file |-> file]
        out == upload_certificate_image(cu, certificate_id, image_type, file)
        r == CHOOSE c \in certificates : c.id = certificate_id
    IN  /\ out.response.status = 200
        /\ FreeTaskIds # {}
        /\ tasks' = tasks \cup {Task("upload_certificate_image", cu, arg, "write", 0, r)}
        /\ UNCHANGED <<impl, users, relationships, certificates, clock, resp>>

\* The write of the image.  The MongoDB server sets the one key
\* images.<image_type> of the stored document; the PostgreSQL server stores
\* new_images, built from the images of the row the handler read.
UploadCertificateImageWrite(t) ==
    LET stored == {c \in certificates : c.id = t.arg.certificate_id}
        encoded_image == b64encode(t.arg.file)
        written ==
            {IF impl = "mongo"
             THEN mongo_set_image(c, t.arg.image_type, encoded_image, Now)
             ELSE [c EXCEPT
                      !.images = sql_new_images(t.local.images, t.arg.image_type,
                                                encoded_image),
                      !.updated_at = Now] : c \in stored}
    IN  /\ t.op = "upload_certificate_image"
        /\ t.pc = "write"
        /\ resp = Idle
        /\ clock < MaxNow
        /\ certificates' = (certificates \ stored) \cup written
        /\ clock' = Now
        /\ resp' = ResponseTo(t, Ok([message |-> "Image uploaded successfully",
                                     image_type |-> t.arg.image_type]))
        /\ tasks' = tasks \ {t}
        /\ UNCHANGED <<impl, users, relationships>>

\* register_user up to the await of the insert: the username lookup and the
\* role checks.
RegisterUserBegin(cu, user_data) ==
    LET out == register_user(cu, user_data)
    IN  /\ out.response.status = 200
        /\ FreeTaskIds # {}
        /\ tasks' = tasks \cup {Task("register_user", cu, user_data, "insert", 0, None)}
        /\ UNCHANGED <<impl, users, relationships, certificates, clock, resp>>

\* db.users.insert_one(user_doc) / session.add(db_user); session.commit().
\* users has no unique index in MongoDB; in PostgreSQL a stored username
\* makes the commit raise IntegrityError.  A retailer registered by a
\* distributor still lacks its edge when this write is visible.
RegisterUserInsert(t) ==
    LET user_obj == User(NewUserId, t.arg.username, t.arg.role, t.caller.id)
        edge_follows == t.arg.role = RETAILER /\ t.caller.role = DISTRIBUTOR
    IN  /\ t.op = "register_user"
        /\ t.pc = "insert"
        /\ IF impl = "sql" /\ ~sql_username_is_unique(user_obj.username)
           THEN /\ resp = Idle
                /\ resp' = ResponseTo(t, HTTPException(400, "Username already exists"))
                /\ tasks' = tasks \ {t}
                /\ UNCHANGED users
           ELSE /\ Cardinality(users) < MaxUsers
                /\ users' = users \cup {user_obj}
                /\ IF edge_follows
                   THEN /\ tasks' = (tasks \ {t}) \cup
                               {[t EXCEPT !.pc = "insert_edge", !.local = user_obj]}
                        /\ UNCHANGED resp
                   ELSE /\ resp = Idle
                        /\ resp' = ResponseTo(t, Ok(user_obj))
                        /\ tasks' = tasks \ {t}
        /\ UNCHANGED <<impl, relationships, certificates, clock>>

\* db.relationships.insert_one(relationship) / session.add(rel); commit():
\* a second write, in no transaction with the first.
RegisterUserInsertEdge(t) ==
    LET relationship ==
            [id |-> NewRelationshipId, distributor_id |-> t.caller.id,
             retailer_id |-> t.local.id]
    IN  /\ t.op = "register_user"
        /\ t.pc = "insert_edge"
        /\ resp = Idle
        /\ relationships' = relationships \cup {relationship}
        /\ resp' = ResponseTo(t, Ok(t.local))
        /\ tasks' = tasks \ {t}
        /\ UNCHANGED <<impl, users, certificates, clock>>

UpdateCertificateBeginRequest ==
    resp = Idle /\ \E cu \in Callers, id \in CertificateIdArgs, cert_data \in CertificateUpdateArgs :
        UpdateCertificateBegin(cu, id, cert_data)

UpdateCertificateWriteStep == resp = Idle /\ \E t \in tasks : UpdateCertificateWrite(t)

UpdateCertificateReturnStep == resp = Idle /\ \E t \in tasks : UpdateCertificateReturn(t)

UploadCertificateImageBeginRequest ==
    resp = Idle /\ \E cu \in Callers, id \in CertificateIdArgs, image_type \in TagArgs,
       file \in Payloads :
        UploadCertificateImageBegin(cu, id, image_type, file)

UploadCertificateImageWriteStep == resp = Idle /\ \E t \in tasks : UploadCertificateImageWrite(t)

RegisterUserBeginRequest ==
    resp = Idle /\ \E cu \in Callers, username \in UsernameArgs, role \in RoleArgs :
        RegisterUserBegin(cu, [username |-> username, role |-> role])

RegisterUserInsertStep == resp = Idle /\ \E t \in tasks : RegisterUserInsert(t)

RegisterUserInsertEdgeStep == resp = Idle /\ \E t \in tasks : RegisterUserInsertEdge(t)

NextConcurrent ==
    \/ Receive
    \/ UpdateCertificateBeginRequest
    \/ UpdateCertificateWriteStep
    \/ UpdateCertificateReturnStep
    \/ UploadCertificateImageBeginRequest
    \/ UploadCertificateImageWriteStep
    \/ RegisterUserBeginRequest
    \/ RegisterUserInsertStep
    \/ RegisterUserInsertEdgeStep
    \/ GetUsersRequest

SpecConcurrent == InitWithCertificate /\ [][NextConcurrent]_vars

(***************************************************************************)
(* Sequences of uploads.  Every handler runs to its end in one step, as in *)
(* Spec; the store starts with one certificate and the requests attach     *)
(* images to it, with either of two files.                                 *)
(***************************************************************************)
MaxImageClock == 4

FileArgs == {"img1", "img2"}

UploadSequenceRequest ==
    resp = Idle /\ \E cu \in Callers, id \in CertificateIdArgs,
                      image_type \in TagArgs \cup {"top"}, file \in FileArgs :
        HandleWithin(MaxImageClock, "upload_certificate_image", cu,
                     [certificate_id |-> id, image_type |-> image_type, file |-> file],
                     upload_certificate_image(cu, id, image_type, file))

NextImages ==
    \/ Receive
    \/ UploadSequenceRequest

SpecImages == InitWithCertificate /\ [][NextImages]_vars

(***************************************************************************)
(* Startup.  Every server process runs the startup hook before it serves   *)
(* requests: create_default_admin in the MongoDB server, lifespan in the   *)
(* PostgreSQL server.  The hook looks for an admin and, after an await,    *)
(* inserts one if it found none.  The store starts empty.                  *)
(***************************************************************************)
MaxStartups == 3

FreeStartupIds == (1..MaxStartups) \ {t.tid : t \in tasks}

StartupTask(pc) ==
    [tid |-> CHOOSE i \in FreeStartupIds : \A j \in FreeStartupIds : i <= j,
     op |-> "startup", caller |-> None, arg |-> None, pc |-> pc, now |-> 0,
     local |-> None]

InitStartup ==
    /\ impl \in {"mongo", "sql"}
    /\ users = {}
    /\ relationships = {}
    /\ certificates = {}
    /\ clock = 0
    /\ resp = Idle
    /\ tasks = {}

\* admin_exists = find_one({"role": ADMIN}) / select(UserModel).where(role ==
\* ADMIN): a run that finds an admin has nothing left to do.
StartupFindAdmin ==
    LET admin_exists == \E u \in users : u.role = ADMIN
    IN  /\ FreeStartupIds # {}
        /\ tasks' = tasks \cup {StartupTask(IF admin_exists THEN "serving" ELSE "insert")}
        /\ UNCHANGED <<impl, users, relationships, certificates, clock, resp>>

\* The insert of the default admin.  MongoDB has no unique index on users,
\* so every run that found no admin stores one.  The PostgreSQL run adds a
\* row with password_hash = hash_password(...), a (salt, key) tuple, and no
\* password_salt, a column that is not nullable: the commit raises, lifespan
\* raises, and the process does not come up.
StartupInsertAdmin(t) ==
    /\ t.op = "startup"
    /\ t.pc = "insert"
    /\ IF impl = "mongo"
       THEN /\ users' = users \cup {User(NewUserId, "admin", ADMIN, NoId)}
            /\ tasks' = (tasks \ {t}) \cup {[t EXCEPT !.pc = "serving"]}
       ELSE /\ users' = users
            /\ tasks' = (tasks \ {t}) \cup {[t EXCEPT !.pc = "failed"]}
    /\ UNCHANGED <<impl, relationships, certificates, clock, resp>>

StartupInsertAdminStep == \E t \in tasks : StartupInsertAdmin(t)

\* A process that came up serves requests.
Serving == \E t \in tasks : t.op = "startup" /\ t.pc = "serving"

ServeRegisterUser == Serving /\ RegisterUserRequest

ServeGetUsers == Serving /\ GetUsersRequest

ServeReceive == Serving /\ Receive

NextStartup ==
    \/ StartupFindAdmin
    \/ StartupInsertAdminStep
    \/ ServeRegisterUser
    \/ ServeGetUsers
    \/ ServeReceive

SpecStartup == InitStartup /\ [][NextStartup]_vars

(***************************************************************************)
(* Vocabulary of the properties.                                           *)
(***************************************************************************)
\* The error kind of a response.
Kind(r) ==
    CASE r.status = 200 -> "ok"
      [] r.status = 401 -> "unauthenticated"
      [] r.status = 403 -> "forbidden"
      [] r.status = 404 -> "not_found"
      [] r.status = 400 /\ r.detail = "Invalid image type" -> "invalid_input"
      [] r.status = 400 /\ r.detail # "Invalid image type" -> "conflict"
      [] OTHER -> "internal_error"

\* resp answers an authenticated request to route op.
Answers(r, op) == r.op = op /\ r.caller # NoId

UserById(id) == CHOOSE u \in users : u.id = id

\* A Relationship Edge (d, r) is stored.
Linked(distributor_id, retailer_id) ==
    \E e \in relationships :
        e.distributor_id = distributor_id /\ e.retailer_id = retailer_id

ReachableRetailers(distributor_id) ==
    {e.retailer_id : e \in {x \in relationships : x.distributor_id = distributor_id}}

\* u is neither an admin, nor a distributor linked to c's owner, nor c's owner.
Outsider(u, c) ==
    /\ u.role # ADMIN
    /\ ~(u.role = DISTRIBUTOR /\ Linked(u.id, c.retailer_id))
    /\ u.id # c.retailer_id

Owns(u, c) == u.role = RETAILER /\ u.id = c.retailer_id

StoreUnchanged ==
    /\ users' = users
    /\ relationships' = relationships
    /\ certificates' = certificates

(***************************************************************************)
(* C1.  get_certificate never returns an existing certificate to an        *)
(* authenticated caller who is not an admin, not a distributor linked to   *)
(* its owner and not its owner: such a caller gets forbidden.              *)
(***************************************************************************)
C1_OutsiderIsForbidden ==
    Answers(resp, "get_certificate") =>
        \A c \in certificates :
            (c.id = resp.arg.certificate_id /\ Outsider(UserById(resp.caller), c))
                => Kind(resp) = "forbidden"

(***************************************************************************)
(* C2.  list_certificates called by a retailer returns exactly the         *)
(* certificates whose retailer_id is the retailer's id.                    *)
(***************************************************************************)
C2_RetailerListsExactlyOwn ==
    (Answers(resp, "get_certificates") /\ UserById(resp.caller).role = RETAILER) =>
        /\ Kind(resp) = "ok"
        /\ resp.body = {c \in certificates : c.retailer_id = resp.caller}

C2_Witness ==
    /\ Answers(resp, "get_certificates")
    /\ UserById(resp.caller).role = RETAILER
    /\ resp.status = 200
    /\ resp.body # {}
    /\ resp.body # certificates

(***************************************************************************)
(* C3.  list_certificates called by a distributor returns exactly the      *)
(* certificates of the retailers linked to it, and succeeds with an empty  *)
(* collection when it has no linked retailer.                              *)
(***************************************************************************)
C3_DistributorListsLinked ==
    (Answers(resp, "get_certificates") /\ UserById(resp.caller).role = DISTRIBUTOR) =>
        /\ Kind(resp) = "ok"
        /\ resp.body =
             {c \in certificates : c.retailer_id \in ReachableRetailers(resp.caller)}
        /\ ReachableRetailers(resp.caller) = {} => resp.body = {}

C3_Witness ==
    /\ Answers(resp, "get_certificates")
    /\ UserById(resp.caller).role = DISTRIBUTOR
    /\ resp.status = 200
    /\ resp.body # {}
    /\ resp.body # certificates

(***************************************************************************)
(* C4.  update_certificate and attach_image change a certificate only for  *)
(* a caller who is a retailer and its owner; every other caller naming an  *)
(* existing certificate gets forbidden and the certificates stay as they   *)
(* were.                                                                   *)
(***************************************************************************)
IsMutation(r) ==
    \/ Answers(r, "update_certificate")
    \/ Answers(r, "upload_certificate_image")

C4_OnlyOwnerMutates ==
    [][IsMutation(resp') =>
        LET cu == UserById(resp'.caller)
            target == {c \in certificates : c.id = resp'.arg.certificate_id}
        IN  /\ \A c \in target :
                   ~Owns(cu, c) => (Kind(resp') = "forbidden" /\ StoreUnchanged)
            /\ certificates' # certificates =>
                   \E c \in target :
                       /\ Owns(cu, c)
                       /\ certificates \ {c} \subseteq certificates'
                       /\ Cardinality(certificates') = Cardinality(certificates)
      ]_vars

\* A distributor linked to the owner was denied an update.
C4_Witness ==
    /\ Answers(resp, "update_certificate")
    /\ resp.status = 403
    /\ UserById(resp.caller).role = DISTRIBUTOR
    /\ \E c \in certificates :
           /\ c.id = resp.arg.certificate_id
           /\ Linked(resp.caller, c.retailer_id)

(***************************************************************************)
(* C5.  For a username that is not registered, register(distributor)       *)
(* creates an identity iff the caller is an admin, register(retailer) iff   *)
(* the caller is an admin or a distributor; otherwise (also without a      *)
(* caller) the call is denied and no identity is created.                  *)
(***************************************************************************)
MayRegister(caller_role, new_role) ==
    \/ new_role = DISTRIBUTOR /\ caller_role = ADMIN
    \/ new_role = RETAILER /\ caller_role \in {ADMIN, DISTRIBUTOR}

C6_AdminRoleAlwaysForbidden ==
    (Answers(resp, "register_user") /\ resp.arg.role = ADMIN) =>
        Kind(resp) = "forbidden"

(***************************************************************************)
(* C6, amended.  register with role admin never creates an identity; for   *)
(* an authenticated caller it fails with forbidden when the username is    *)
(* not registered and with conflict when it is.                            *)
(***************************************************************************)
C6_AdminRoleNeverCreated ==
    [][/\ (Answers(resp', "register_user") /\ resp'.arg.role = ADMIN) =>
              /\ StoreUnchanged
              /\ Kind(resp') = IF resp'.arg.username \in UsedNames
                               THEN "conflict" ELSE "forbidden"
       /\ (resp'.op = "register_user" /\ resp'.caller = NoId) =>
              (Kind(resp') = "unauthenticated" /\ StoreUnchanged)
      ]_vars

\* An admin was denied the registration of an admin under a new name.
C6_Witness ==
    /\ Answers(resp, "register_user")
    /\ resp.arg.role = ADMIN
    /\ resp.arg.username \notin UsedNames
    /\ UserById(resp.caller).role = ADMIN
    /\ resp.status = 403

(***************************************************************************)
(* C7.  register with a stored username fails with conflict for every      *)
(* role and every authenticated caller, also where the role check alone    *)
(* would deny, and leaves the store unchanged.                             *)
(***************************************************************************)
C7_DuplicateIsConflict ==
    [][/\ (Answers(resp', "register_user") /\ resp'.arg.username \in UsedNames) =>
              (Kind(resp') = "conflict" /\ StoreUnchanged)
       /\ Answers(resp', "register_user") =>
              \A cu \in users, username \in UsedNames, role \in RoleArgs :
                  LET out == register_user(cu, [username |-> username, role |-> role])
                  IN  /\ Kind(out.response) = "conflict"
                      /\ out.users = users
                      /\ out.relationships = relationships
                      /\ out.certificates = certificates
      ]_vars

\* A retailer asked for an admin under a stored name: conflict, not forbidden.
C7_Witness ==
    /\ Answers(resp, "register_user")
    /\ resp.arg.username \in UsedNames
    /\ resp.arg.role = ADMIN
    /\ UserById(resp.caller).role = RETAILER
    /\ resp.status = 400

(***************************************************************************)
(* C8.  A successful register(retailer) by a distributor D adds exactly    *)
(* the one edge (D, new retailer); every other successful register leaves  *)
(* the edges unchanged.                                                    *)
(***************************************************************************)
C8_EdgeOnlyForDistributorsRetailer ==
    [][(Answers(resp', "register_user") /\ resp'.status = 200) =>
          LET cu == UserById(resp'.caller)
              added == relationships' \ relationships
          IN  /\ relationships \subseteq relationships'
              /\ IF resp'.arg.role = RETAILER /\ cu.role = DISTRIBUTOR
                 THEN /\ Cardinality(added) = 1
                      /\ \A e \in added :
                             /\ e.distributor_id = cu.id
                             /\ e.retailer_id = resp'.body.id
                      /\ Cardinality({e \in relationships' :
                                         /\ e.distributor_id = cu.id
                                         /\ e.retailer_id = resp'.body.id}) = 1
                 ELSE added = {}
      ]_vars

\* A distributor registered a retailer while other edges were stored.
C8_Witness ==
    /\ Answers(resp, "register_user")
    /\ resp.status = 200
    /\ resp.arg.role = RETAILER
    /\ UserById(resp.caller).role = DISTRIBUTOR
    /\ Linked(resp.caller, resp.body.id)
    /\ Cardinality(relationships) = 2

(***************************************************************************)
(* C9.  create_certificate succeeds only for a retailer, stores a          *)
(* certificate whose retailer_id is the caller's id, and is forbidden      *)
(* without storing anything for every other role; so every stored          *)
(* certificate is owned by a retailer.                                     *)
(***************************************************************************)
C9_OnlyRetailersCreate ==
    [][/\ Answers(resp', "create_certificate") =>
              LET cu == UserById(resp'.caller)
              IN  IF cu.role = RETAILER
                  THEN /\ Kind(resp') = "ok"
                       /\ resp'.body \notin certificates
                       /\ certificates' = certificates \cup {resp'.body}
                       /\ resp'.body.retailer_id = cu.id
                  ELSE /\ Kind(resp') = "forbidden"
                       /\ StoreUnchanged
       /\ \A c \in certificates' :
              \E u \in users' : u.id = c.retailer_id /\ u.role = RETAILER
      ]_vars

\* A retailer created a certificate while a distributor and an admin exist.
C9_Witness ==
    /\ Answers(resp, "create_certificate")
    /\ resp.status = 200
    /\ resp.body \in certificates
    /\ resp.body.retailer_id = resp.caller
    /\ \E u \in users : u.role = DISTRIBUTOR

(***************************************************************************)
(* C10.  list_users returns every identity to an admin, exactly the linked *)
(* retailers to a distributor, and is forbidden for a retailer.            *)
(***************************************************************************)
C10_UserListingScope ==
    Answers(resp, "get_users") =>
        LET cu == UserById(resp.caller)
        IN  /\ cu.role = ADMIN => (Kind(resp) = "ok" /\ resp.body = users)
            /\ cu.role = DISTRIBUTOR =>
                   /\ Kind(resp) = "ok"
                   /\ resp.body = {u \in users : Linked(cu.id, u.id)}
                   /\ \A u \in resp.body : u.role = RETAILER
            /\ cu.role = RETAILER => Kind(resp) = "forbidden"

\* A distributor listed its retailers while another retailer exists.
C10_Witness ==
    /\ Answers(resp, "get_users")
    /\ UserById(resp.caller).role = DISTRIBUTOR
    /\ resp.status = 200
    /\ resp.body # {}
    /\ \E u \in users : u.role = RETAILER /\ u \notin resp.body

(***************************************************************************)
(* C11.  get_certificate with an id that matches no stored certificate is  *)
(* not_found for every authenticated caller, whatever the role; forbidden  *)
(* is answered only for the id of a stored certificate.                    *)
(***************************************************************************)
C11_MissIsNotFound ==
    Answers(resp, "get_certificate") =>
        LET found == {c \in certificates : c.id = resp.arg.certificate_id}
        IN  /\ found = {} => Kind(resp) = "not_found"
            /\ Kind(resp) = "forbidden" => found # {}
            /\ Kind(resp) = "not_found" => found = {}

\* A retailer asked for an unknown id while another retailer's certificate
\* is stored.
C11_Witness ==
    /\ Answers(resp, "get_certificate")
    /\ UserById(resp.caller).role = RETAILER
    /\ resp.status = 404
    /\ \E c \in certificates : c.retailer_id # resp.caller

(***************************************************************************)
(* C12.  Every write of a successful update_certificate leaves the         *)
(* certificate's id, certificate_no and retailer_id as they were and makes *)
(* its updated_at strictly greater than the value stored before the write, *)
(* in every interleaving of updates.                                       *)
(***************************************************************************)
C12_UpdateKeepsIdentityAndAdvances ==
    [][\A t \in tasks :
          (t.pc = "update" /\ [t EXCEPT !.pc = "refetch"] \in tasks') =>
              \A c \in certificates :
                  c.id = t.arg.certificate_id =>
                      \E d \in certificates' :
                          /\ d.id = c.id
                          /\ d.certificate_no = c.certificate_no
                          /\ d.retailer_id = c.retailer_id
                          /\ d.updated_at > c.updated_at
      ]_vars

(***************************************************************************)
(* C13.  A successful attach_image in a sequence of attaches by the owner  *)
(* leaves the images map with the attached tag holding the new payload and *)
(* every other tag as it was: front then back leaves both, front twice     *)
(* leaves the one front entry with the second payload.                     *)
(***************************************************************************)
C13_AttachSetsOneTag ==
    [][(Answers(resp', "upload_certificate_image") /\ resp'.status = 200) =>
          LET tag == resp'.arg.image_type
          IN  \A c \in certificates :
                  c.id = resp'.arg.certificate_id =>
                      \E d \in certificates' :
                          /\ d.id = c.id
                          /\ certificates' = (certificates \ {c}) \cup {d}
                          /\ DOMAIN d.images = DOMAIN c.images \cup {tag}
                          /\ d.images[tag] = b64encode(resp'.arg.file)
                          /\ \A other \in DOMAIN c.images \ {tag} :
                                 d.images[other] = c.images[other]
      ]_vars

\* Three attaches have left two tags: one of them was overwritten, front
\* holds the second file and back is still in place.
C13_Witness ==
    /\ Answers(resp, "upload_certificate_image")
    /\ resp.status = 200
    /\ resp.arg.image_type = "front"
    /\ resp.arg.file = "img2"
    /\ \E c \in certificates :
           /\ c.id = resp.arg.certificate_id
           /\ DOMAIN c.images = {"front", "back"}
           /\ c.images["front"] = b64encode("img2")
           /\ c.images["back"] = b64encode("img1")
           /\ c.updated_at = c.created_at + 3

(***************************************************************************)
(* C14.  Concurrent mutations of one certificate by its owner lose         *)
(* nothing: a write never drops an image entry, changes an image entry     *)
(* only for the tag it uploads, and changes an updatable field only to the *)
(* value its update carries.                                               *)
(***************************************************************************)
C14_NoLostUpdate ==
    [][\A c \in certificates :
          \E d \in certificates' :
              /\ d.id = c.id
              /\ \A tag \in DOMAIN c.images :
                     /\ tag \in DOMAIN d.images
                     /\ d.images[tag] # c.images[tag] =>
                            \E t \in tasks \ tasks' :
                                /\ t.op = "upload_certificate_image"
                                /\ t.arg.image_type = tag
              /\ \A f \in UpdatableFields :
                     d[f] # c[f] =>
                         \E t \in tasks :
                             /\ t.op = "update_certificate"
                             /\ t.pc = "update"
                             /\ t.arg.cert_data[f] = d[f]
      ]_vars

(***************************************************************************)
(* C15.  Once every startup run that was started has ended, racing or one  *)
(* after another, the store holds exactly one admin identity and no run    *)
(* has ended with an error.                                                *)
(***************************************************************************)
C15_ExactlyOneAdmin ==
    LET runs == {t \in tasks : t.op = "startup"}
    IN  (runs # {} /\ \A t \in runs : t.pc # "insert") =>
            /\ Cardinality({u \in users : u.role = ADMIN}) = 1
            /\ \A t \in runs : t.pc = "serving"

(***************************************************************************)
(* C16.  A distributor D whose one registered retailer R1 owns the one     *)
(* certificate C1: D's dashboard_stats reports total_certificates = 1 and  *)
(* draft_certificates = 1 while C1 is a draft, and submitted_certificates  *)
(* = 1 and draft_certificates = 0 once R1 has updated C1 to submitted.     *)
(***************************************************************************)
C16_DistributorDashboardScenario ==
    (Answers(resp, "get_dashboard_stats") /\ UserById(resp.caller).role = DISTRIBUTOR) =>
        LET scope == {c \in certificates :
                         c.retailer_id \in ReachableRetailers(resp.caller)}
        IN  /\ Kind(resp) = "ok"
            /\ \A c \in scope :
                   scope = {c} =>
                       /\ resp.body.total_certificates = 1
                       /\ c.status = "draft" =>
                              /\ resp.body.draft_certificates = 1
                              /\ resp.body.submitted_certificates = 0
                       /\ c.status = "submitted" =>
                              /\ resp.body.submitted_certificates = 1
                              /\ resp.body.draft_certificates = 0

\* D reads its dashboard after the retailer it registered has updated its
\* certificate to submitted.
C16_Witness ==
    /\ Answers(resp, "get_dashboard_stats")
    /\ UserById(resp.caller).role = DISTRIBUTOR
    /\ \E c \in certificates :
           /\ UserById(c.retailer_id).created_by = resp.caller
           /\ Linked(resp.caller, c.retailer_id)
           /\ c.status = "submitted"
           /\ c.updated_at > c.created_at
    /\ resp.body.submitted_certificates = 1
    /\ resp.body.draft_certificates = 0

(***************************************************************************)
(* C17.  dashboard_stats succeeds for every caller with the aggregate of   *)
(* the caller's certificate scope: total_certificates is the number of     *)
(* certificates list_certificates returns to the caller,                   *)
(* submitted_certificates the number of those that are submitted,          *)
(* draft_certificates their difference, and a distributor's                *)
(* total_retailers the number of retailers linked to it.                   *)
(***************************************************************************)
C17_DashboardIsScopeAggregate ==
    Answers(resp, "get_dashboard_stats") =>
        LET cu == UserById(resp.caller)
            scope == get_certificates(cu).response.body
        IN  /\ Kind(resp) = "ok"
            /\ resp.body.total_certificates = Cardinality(scope)
            /\ resp.body.submitted_certificates =
                   Cardinality({c \in scope : c.status = "submitted"})
            /\ resp.body.draft_certificates =
                   resp.body.total_certificates - resp.body.submitted_certificates
            /\ cu.role = DISTRIBUTOR =>
                   resp.body.total_retailers = Cardinality(ReachableRetailers(cu.id))

(***************************************************************************)
(* C18.  Registration of a retailer by a distributor D is atomic: in no    *)
(* state that another operation can observe is the retailer stored with    *)
(* created_by = D.id while the edge (D.id, retailer.id) is missing.        *)
(***************************************************************************)
C18_RetailerNeverWithoutEdge ==
    \A u \in users :
        (/\ u.role = RETAILER
         /\ \E d \in users : d.id = u.created_by /\ d.role = DISTRIBUTOR)
            => Linked(u.created_by, u.id)

(***************************************************************************)
(* C19.  In every reachable state there is at most one edge per            *)
(* (distributor_id, retailer_id) pair, every edge's distributor_id is the  *)
(* id of a stored identity with role distributor, and every edge's         *)
(* retailer_id is the id of a stored identity with role retailer.          *)
(***************************************************************************)
C19_EdgesAreWellFormed ==
    /\ \A e1, e2 \in relationships :
           (e1.distributor_id = e2.distributor_id /\ e1.retailer_id = e2.retailer_id)
               => e1 = e2
    /\ \A e \in relationships :
           /\ \E u \in users : u.id = e.distributor_id /\ u.role = DISTRIBUTOR
           /\ \E u \in users : u.id = e.retailer_id /\ u.role = RETAILER

\* A distributor has registered a retailer, which got its edge, and has also
\* registered an identity of another role, which got none.
C19_Witness ==
    \E d \in users :
        /\ d.role = DISTRIBUTOR
        /\ \E r \in users :
               r.role = RETAILER /\ r.created_by = d.id /\ Linked(d.id, r.id)
        /\ \E u \in users :
               /\ u.created_by = d.id
               /\ u.role # RETAILER
               /\ \A e \in relationships : e.retailer_id # u.id

(***************************************************************************)
(* C20.  In every reachable state every stored identity has a role in      *)
(* {admin, distributor, retailer}: a register call with any other role     *)
(* creates no identity.                                                    *)
(***************************************************************************)
C20_StoredRolesAreKnown ==
    \A u \in users : u.role \in {ADMIN, DISTRIBUTOR, RETAILER}

(***************************************************************************)
(* Concurrent registrations on a store that holds only the default admin.  *)
(***************************************************************************)
NextRegistration ==
    \/ Receive
    \/ RegisterUserBeginRequest
    \/ RegisterUserInsertStep
    \/ RegisterUserInsertEdgeStep
    \/ GetUsersRequest

SpecRegistration == Init /\ [][NextRegistration]_vars

(***************************************************************************)
(* C21.  In every reachable state no two stored identities share a         *)
(* username, also when two register calls with the same fresh username     *)
(* both pass the existence check before either inserts.                    *)
(***************************************************************************)
C21_UsernamesAreUnique ==
    \A u1, u2 \in users : u1.username = u2.username => u1 = u2

(***************************************************************************)
(* Certificate bodies: create and update requests with every status string *)
(* and every subset of the updatable fields.                               *)
(***************************************************************************)
MaxFieldClock == 3

\* status is a str in CertificateCreate and CertificateUpdate.
StatusValues == {"draft", "submitted", "approved"}

CertificateCreateBodies ==
    {[dealer_name |-> "dn1", dealer_license |-> "dl1", vehicle_details |-> "vd1",
      owner_details |-> "od1", fitment_details |-> "fd1", status |-> s] :
        s \in StatusValues}

SuppliedValue(f, s) ==
    CASE f = "dealer_name" -> "dn2"
      [] f = "dealer_license" -> "dl2"
      [] f = "vehicle_details" -> "vd2"
      [] f = "owner_details" -> "od2"
      [] f = "fitment_details" -> "fd2"
      [] f = "status" -> s

CertificateUpdateBodies ==
    {[f \in UpdatableFields |-> IF f \in S THEN SuppliedValue(f, s) ELSE None] :
        S \in SUBSET UpdatableFields, s \in StatusValues \ {"draft"}}

CreateCertificateBodyRequest ==
    resp = Idle /\ \E cu \in Callers, cert_data \in CertificateCreateBodies :
        HandleWithin(MaxFieldClock, "create_certificate", cu, cert_data,
                     create_certificate(cu, cert_data))

UpdateCertificateBodyRequest ==
    resp = Idle /\ \E cu \in Callers, id \in CertificateIdArgs,
                      cert_data \in CertificateUpdateBodies :
        HandleWithin(MaxFieldClock, "update_certificate", cu,
                     [certificate_id |-> id, cert_data |-> cert_data],
                     update_certificate(cu, id, cert_data))

NextFields ==
    \/ Receive
    \/ CreateCertificateBodyRequest
    \/ UpdateCertificateBodyRequest

SpecFields == InitWithCertificate /\ [][NextFields]_vars

(***************************************************************************)
(* C22.  In every reachable state every certificate's status is draft or   *)
(* submitted: create_certificate and update_certificate store no other     *)
(* status value.                                                           *)
(***************************************************************************)
C22_StatusIsDraftOrSubmitted ==
    \A c \in certificates : c.status \in {"draft", "submitted"}

(***************************************************************************)
(* C23.  The keys of every certificate's images map are among front, back, *)
(* side1 and side2: a certificate is created with an empty map, and an     *)
(* attach_image by the owner with any other tag fails with invalid_input   *)
(* and leaves the certificates (images and updated_at) unchanged.          *)
(***************************************************************************)
C23_ImageKeysAreTags ==
    [][/\ \A c \in certificates' : DOMAIN c.images \subseteq ImageTypes
       /\ (Answers(resp', "create_certificate") /\ Kind(resp') = "ok") =>
              \A c \in certificates' \ certificates : c.images = NoImages
       /\ Answers(resp', "upload_certificate_image") =>
              \A c \in certificates :
                  (/\ c.id = resp'.arg.certificate_id
                   /\ Owns(UserById(resp'.caller), c)
                   /\ resp'.arg.image_type \notin ImageTypes)
                      => (Kind(resp') = "invalid_input" /\ StoreUnchanged)
      ]_vars

\* The owner of a certificate that already holds an image was refused an
\* attach with a tag outside the four.
C23_Witness ==
    /\ Answers(resp, "upload_certificate_image")
    /\ Kind(resp) = "invalid_input"
    /\ resp.arg.image_type \notin ImageTypes
    /\ \E c \in certificates :
           /\ c.id = resp.arg.certificate_id
           /\ Owns(UserById(resp.caller), c)
           /\ DOMAIN c.images # {}

C25_OneDistributorPerRetailer ==
    /\ \A r \in users :
           r.role = RETAILER =>
               Cardinality({e \in relationships : e.retailer_id = r.id}) <= 1
    /\ \A c \in certificates :
           Cardinality({d \in users :
                           /\ d.role = DISTRIBUTOR
                           /\ \/ get_certificate(d, c.id).response.status = 200
                              \/ c \in get_certificates(d).response.body}) <= 1

\* Two distributors are stored; the one that is not linked to the owner of a
\* certificate has read its dashboard and counts no certificate, the other
\* one can read the certificate.
C25_Witness ==
    /\ Answers(resp, "get_dashboard_stats")
    /\ UserById(resp.caller).role = DISTRIBUTOR
    /\ Kind(resp) = "ok"
    /\ resp.body.total_certificates = 0
    /\ \E c \in certificates, d \in users :
           /\ d.role = DISTRIBUTOR
           /\ d.id # resp.caller
           /\ Linked(d.id, c.retailer_id)
           /\ get_certificate(d, c.id).response.status = 200
           /\ get_certificate(UserById(resp.caller), c.id).response.status = 403

(***************************************************************************)
(* C26.  For the owner and every subset of the six updatable fields        *)
(* supplied with non-null values, update_certificate succeeds and the      *)
(* stored certificate afterwards differs from the one before exactly in    *)
(* the supplied fields and updated_at; the fields not supplied and the     *)
(* images map keep their values.                                           *)
(***************************************************************************)
C26_UpdateSetsSuppliedFields ==
    [][Answers(resp', "update_certificate") =>
          \A c \in certificates :
              (c.id = resp'.arg.certificate_id /\ Owns(UserById(resp'.caller), c)) =>
                  /\ Kind(resp') = "ok"
                  /\ \E d \in certificates' :
                         /\ certificates' = (certificates \ {c}) \cup {d}
                         /\ \A f \in DOMAIN c :
                                d[f] = IF f \in UpdatableFields /\ resp'.arg.cert_data[f] # None
                                       THEN resp'.arg.cert_data[f]
                                       ELSE IF f = "updated_at" THEN d[f]
                                       ELSE c[f]
                         /\ d.updated_at > c.updated_at
      ]_vars

(***************************************************************************)
(* C27.  Listing and single fetch agree: in every reachable state, for     *)
(* every stored identity u and every stored certificate c,                 *)
(* get_certificate(c.id) succeeds for u iff c is in the collection that    *)
(* list_certificates returns to u.                                         *)
(***************************************************************************)
C27_ListAndFetchAgree ==
    \A u \in users, c \in certificates :
        get_certificate(u, c.id).response.status = 200
            <=> c \in get_certificates(u).response.body

(***************************************************************************)
(* dashboard_stats interleaved with certificate writes.  The MongoDB       *)
(* handler awaits one count_documents per figure; the PostgreSQL handler   *)
(* selects the rows of the scope once and counts them in memory.           *)
(***************************************************************************)
\* The certificates the caller's figures range over, given the retailer ids
\* the handler has read from relationships.
dashboard_filter(current_user, retailer_ids) ==
    IF current_user.role = ADMIN THEN certificates
    ELSE IF current_user.role = DISTRIBUTOR
    THEN {c \in certificates : c.retailer_id \in retailer_ids}
    ELSE {c \in certificates : c.retailer_id = current_user.id}

dashboard_body(current_user, local, total_certificates, submitted_certificates) ==
    IF current_user.role = ADMIN
    THEN [total_users |-> local.total_users,
          total_distributors |-> local.total_distributors,
          total_retailers |-> local.total_retailers,
          total_certificates |-> total_certificates,
          submitted_certificates |-> submitted_certificates,
          draft_certificates |-> total_certificates - submitted_certificates]
    ELSE IF current_user.role = DISTRIBUTOR
    THEN [total_retailers |-> local.total_retailers,
          total_certificates |-> total_certificates,
          submitted_certificates |-> submitted_certificates,
          draft_certificates |-> total_certificates - submitted_certificates]
    ELSE [total_certificates |-> total_certificates,
          submitted_certificates |-> submitted_certificates,
          draft_certificates |-> total_certificates - submitted_certificates]

\* The handler up to its first read of certificates: the user counts (admin)
\* or the caller's relationships (distributor).  The PostgreSQL admin branch
\* raises on its filtered count.
GetDashboardStatsBegin(cu) ==
    LET rels == {r \in relationships : r.distributor_id = cu.id}
        local == [total_users |-> Cardinality(users),
                  total_distributors |-> Cardinality({u \in users : u.role = DISTRIBUTOR}),
                  total_retailers |->
                      IF cu.role = DISTRIBUTOR THEN Cardinality(rels)
                      ELSE Cardinality({u \in users : u.role = RETAILER}),
                  retailer_ids |-> {r.retailer_id : r \in rels},
                  total_certificates |-> 0]
    IN  /\ FreeTaskIds # {}
        /\ IF impl = "sql" /\ cu.role = ADMIN
           THEN /\ resp' = [op |-> "get_dashboard_stats", caller |-> cu.id,
                            arg |-> None, status |-> InternalServerError.status,
                            detail |-> InternalServerError.detail,
                            body |-> InternalServerError.body]
                /\ UNCHANGED tasks
           ELSE /\ tasks' = tasks \cup
                       {Task("get_dashboard_stats", cu, None,
                             IF impl = "sql" THEN "select_rows" ELSE "count_total",
                             0, local)}
                /\ UNCHANGED resp
        /\ UNCHANGED <<impl, users, relationships, certificates, clock>>

\* total_certificates = await db.certificates.count_documents(<scope>)
GetDashboardStatsCountTotal(t) ==
    /\ t.op = "get_dashboard_stats"
    /\ t.pc = "count_total"
    /\ tasks' = (tasks \ {t}) \cup
           {[t EXCEPT !.pc = "count_submitted",
                      !.local.total_certificates =
                          Cardinality(dashboard_filter(t.caller, t.local.retailer_ids))]}
    /\ UNCHANGED <<impl, users, relationships, certificates, clock, resp>>

\* submitted_certificates = await db.certificates.count_documents(<scope,
\* status submitted>), then the reply.
GetDashboardStatsCountSubmitted(t) ==
    LET submitted_certificates ==
            Cardinality({c \in dashboard_filter(t.caller, t.local.retailer_ids) :
                            c.status = "submitted"})
    IN  /\ t.op = "get_dashboard_stats"
        /\ t.pc = "count_submitted"
        /\ resp' = ResponseTo(t, Ok(dashboard_body(t.caller, t.local,
                                                   t.local.total_certificates,
                                                   submitted_certificates)))
        /\ tasks' = tasks \ {t}
        /\ UNCHANGED <<impl, users, relationships, certificates, clock>>

\* rows = (await session.execute(select(CertificateModel).where(<scope>)))
\* .scalars().all(); both figures are counted from rows.
GetDashboardStatsSelectRows(t) ==
    LET rows == dashboard_filter(t.caller, t.local.retailer_ids)
    IN  /\ t.op = "get_dashboard_stats"
        /\ t.pc = "select_rows"
        /\ resp' = ResponseTo(t, Ok(dashboard_body(t.caller, t.local,
                         Cardinality(rows),
                         Cardinality({r \in rows : r.status = "submitted"}))))
        /\ tasks' = tasks \ {t}
        /\ UNCHANGED <<impl, users, relationships, certificates, clock>>

GetDashboardStatsBeginRequest ==
    resp = Idle /\ \E cu \in Callers : GetDashboardStatsBegin(cu)

GetDashboardStatsCountTotalStep ==
    resp = Idle /\ \E t \in tasks : GetDashboardStatsCountTotal(t)

GetDashboardStatsCountSubmittedStep ==
    resp = Idle /\ \E t \in tasks : GetDashboardStatsCountSubmitted(t)

GetDashboardStatsSelectRowsStep ==
    resp = Idle /\ \E t \in tasks : GetDashboardStatsSelectRows(t)

\* Certificate writes of other requests; each is one write to the store.
CreateDuringDashboardRequest ==
    resp = Idle /\ \E cu \in Callers, cert_data \in CertificateCreateBodies :
        /\ create_certificate(cu, cert_data).response.status = 200
        /\ HandleWithin(MaxFieldClock, "create_certificate", cu, cert_data,
                        create_certificate(cu, cert_data))

UpdateDuringDashboardRequest ==
    resp = Idle /\ \E cu \in Callers, id \in CertificateIdArgs,
                      cert_data \in CertificateUpdateArgs :
        /\ update_certificate(cu, id, cert_data).response.status = 200
        /\ HandleWithin(MaxFieldClock, "update_certificate", cu,
                        [certificate_id |-> id, cert_data |-> cert_data],
                        update_certificate(cu, id, cert_data))

NextDashboardConcurrent ==
    \/ Receive
    \/ GetDashboardStatsBeginRequest
    \/ GetDashboardStatsCountTotalStep
    \/ GetDashboardStatsCountSubmittedStep
    \/ GetDashboardStatsSelectRowsStep
    \/ CreateDuringDashboardRequest
    \/ UpdateDuringDashboardRequest

SpecDashboardConcurrent == InitWithCertificate /\ [][NextDashboardConcurrent]_vars

(***************************************************************************)
(* C28.  Every dashboard_stats reply satisfies                             *)
(* 0 <= submitted_certificates <= total_certificates and                   *)
(* draft_certificates >= 0, also when create_certificate or                *)
(* update_certificate calls of other callers run between the reads the     *)
(* handler issues.                                                         *)
(***************************************************************************)
C28_DashboardFiguresAreConsistent ==
    (Answers(resp, "get_dashboard_stats") /\ Kind(resp) = "ok") =>
        /\ 0 <= resp.body.submitted_certificates
        /\ resp.body.submitted_certificates <= resp.body.total_certificates
        /\ resp.body.draft_certificates >= 0

(***************************************************************************)
(* C29.  On update_certificate and attach_image the checks apply in the    *)
(* order role, existence, ownership, tag validity: a caller who is not a   *)
(* retailer gets forbidden even for an unknown certificate id, a retailer  *)
(* gets not_found for an unknown id, a retailer who is not the owner gets  *)
(* forbidden even with an invalid tag, and only the owner can receive      *)
(* invalid_input.                                                          *)
(***************************************************************************)
C29_MutationCheckOrder ==
    IsMutation(resp) =>
        LET cu == UserById(resp.caller)
            target == {c \in certificates : c.id = resp.arg.certificate_id}
        IN  /\ cu.role # RETAILER => Kind(resp) = "forbidden"
            /\ (cu.role = RETAILER /\ target = {}) => Kind(resp) = "not_found"
            /\ (cu.role = RETAILER /\ target # {}
                   /\ \A c \in target : c.retailer_id # cu.id)
                  => Kind(resp) = "forbidden"
            /\ Kind(resp) = "invalid_input" =>
                   /\ resp.op = "upload_certificate_image"
                   /\ resp.arg.image_type \notin ImageTypes
                   /\ \E c \in target : Owns(cu, c)

\* A retailer who does not own the certificate attached with an invalid tag
\* and was refused as forbidden.
C29_Witness ==
    /\ Answers(resp, "upload_certificate_image")
    /\ UserById(resp.caller).role = RETAILER
    /\ resp.arg.image_type \notin ImageTypes
    /\ Kind(resp) = "forbidden"
    /\ \E c \in certificates :
           c.id = resp.arg.certificate_id /\ c.retailer_id # resp.caller

(***************************************************************************)
(* Every route of the server, the dashboard included.                      *)
(***************************************************************************)
NextRoutes ==
    \/ Next
    \/ GetDashboardStatsRequest

SpecRoutes == Init /\ [][NextRoutes]_vars

(***************************************************************************)
(* C30.  Every operation that ends in unauthenticated, forbidden,          *)
(* not_found, conflict or invalid_input leaves the identities, the         *)
(* Relationship Edges and the certificates, with every field of every      *)
(* record, as they were before the call; whoami, list_users,               *)
(* list_certificates, get_certificate and dashboard_stats never change the *)
(* store, whatever their outcome.                                          *)
(***************************************************************************)
C30_ErrorsAndReadsKeepTheStore ==
    [][(resp.op = "idle" /\ resp'.op # "idle") =>
          /\ Kind(resp') \in {"unauthenticated", "forbidden", "not_found",
                              "conflict", "invalid_input"} => StoreUnchanged
          /\ resp'.op \in {"get_current_user_info", "get_users", "get_certificates",
                           "get_certificate", "get_dashboard_stats"} => StoreUnchanged
      ]_vars

\* A retailer was refused an update of another retailer's certificate, which
\* its owner had updated before.
C30_Witness ==
    /\ Answers(resp, "update_certificate")
    /\ Kind(resp) = "forbidden"
    /\ UserById(resp.caller).role = RETAILER
    /\ \E c \in certificates :
           /\ c.id = resp.arg.certificate_id
           /\ c.retailer_id # resp.caller
           /\ c.updated_at > c.created_at

====
